---- MODULE Spec2Model ----
(***************************************************************************)
(* Model of src/server.py: the CORS development server.                    *)
(*                                                                         *)
(* CORSHTTPRequestHandler overrides end_headers, do_OPTIONS, do_GET and    *)
(* log_message of http.server.SimpleHTTPRequestHandler; main() parses the  *)
(* port, pins the working directory, binds a socketserver.TCPServer and    *)
(* serves until KeyboardInterrupt.  The inherited library methods the      *)
(* overrides call or are called from (parse_request, send_response,        *)
(* send_header, send_error, send_head, translate_path, urlparse,           *)
(* serve_forever) are modelled as CPython 3.11 executes them.              *)
(*                                                                         *)
(* A request target is a sequence of tokens; "/", "?", "#" and ";" are the *)
(* delimiter characters, every other token is a run of ordinary            *)
(* characters.                                                             *)
(***************************************************************************)
EXTENDS Integers, Sequences, FiniteSets, TLC

\* ------------------------------------------------------------------ bounds
MaxTargetLen == 2

\* ------------------------------------------------------- program constants
DefaultPort == 8000
MaxPort == 65535

ScriptDir == "script_dir"
CallerDir == "caller_dir"

\* --------------------------------------------------------------- sequences
Tok == {"/", "?", "#", ";", "index.html", "x", ".."}
Targets == UNION {[1..n -> Tok] : n \in 1..MaxTargetLen}

\* str.find(t, from): the first index >= from holding t, 0 when there is none
Find(s, t, from) ==
  LET hits == {i \in from..Len(s) : s[i] = t}
  IN IF hits = {} THEN 0 ELSE CHOOSE i \in hits : \A j \in hits : i <= j

\* str.rfind(t): the last index holding t, 0 when there is none
RFind(s, t) ==
  LET hits == {i \in 1..Len(s) : s[i] = t}
  IN IF hits = {} THEN 0 ELSE CHOOSE i \in hits : \A j \in hits : j <= i

\* the first index >= from holding any token of ts, Len(s)+1 when there is none
FindAny(s, ts, from) ==
  LET hits == {i \in from..Len(s) : s[i] \in ts}
  IN IF hits = {} THEN Len(s) + 1 ELSE CHOOSE i \in hits : \A j \in hits : i <= j

\* s.split(t, 1)[0]
Before(s, t) ==
  IF Find(s, t, 1) = 0 THEN s ELSE SubSeq(s, 1, Find(s, t, 1) - 1)

\* s.lstrip("/")
RECURSIVE LStripSlash(_)
LStripSlash(s) ==
  IF s # <<>> /\ Head(s) = "/" THEN LStripSlash(Tail(s)) ELSE s

\* ------------------------------------------------------------ urllib.parse
\* urlsplit(url).path: drop a //netloc prefix, then the fragment, then the query
UrlsplitPath(url) ==
  LET hasNetloc == Len(url) >= 2 /\ url[1] = "/" /\ url[2] = "/"
      rest == IF hasNetloc
              THEN SubSeq(url, FindAny(url, {"/", "?", "#"}, 3), Len(url))
              ELSE url
  IN Before(Before(rest, "#"), "?")

\* _splitparams(url)[0]: cut at the first ";" of the last path segment
SplitParams(url) ==
  LET i == IF Find(url, "/", 1) # 0
           THEN Find(url, ";", RFind(url, "/"))
           ELSE Find(url, ";", 1)
  IN IF i = 0 THEN url ELSE SubSeq(url, 1, i - 1)

\* urlparse(url).path (the empty scheme is in uses_params)
UrlparsePath(url) ==
  LET p == UrlsplitPath(url)
  IN IF Find(p, ";", 1) # 0 THEN SplitParams(p) ELSE p

\* ------------------------------------------------------------- filesystem
\* The served root holds index.html (readable, unreadable or missing) and
\* nothing else; the root itself is the only directory.
FileStates == {"readable", "unreadable", "missing"}

\* path.split("/") with the empty words filtered out: the runs of non-"/" tokens
RECURSIVE SplitWords(_, _, _)
SplitWords(s, cur, acc) ==
  IF s = <<>> THEN (IF cur = <<>> THEN acc ELSE Append(acc, cur))
  ELSE IF Head(s) = "/"
       THEN SplitWords(Tail(s), <<>>, IF cur = <<>> THEN acc ELSE Append(acc, cur))
       ELSE SplitWords(Tail(s), Append(cur, Head(s)), acc)

\* posixpath.normpath followed by translate_path's skipping of os.pardir:
\* ".." removes the component before it, and is dropped when there is none
RECURSIVE Normalize(_, _)
Normalize(words, stack) ==
  IF words = <<>> THEN stack
  ELSE IF Head(words) = <<"..">>
       THEN Normalize(Tail(words),
                      IF stack = <<>> THEN stack ELSE SubSeq(stack, 1, Len(stack) - 1))
       ELSE Normalize(Tail(words), Append(stack, Head(words)))

\* SimpleHTTPRequestHandler.translate_path: the components under the root and
\* whether the request path ended in "/"
translate_path(path) ==
  LET p == Before(Before(path, "?"), "#")
  IN [words |-> Normalize(SplitWords(p, <<>>, <<>>), <<>>),
      trailing_slash |-> (p # <<>> /\ p[Len(p)] = "/")]

\* ----------------------------------------------------------------- request
Methods == {"GET", "HEAD", "OPTIONS", "POST"}
\* "" stands for a two-word request line (no version word)
Versions == {"", "HTTP/1.1", "HTTP/0.9", "HTTP/2.0", "FOO/1.1"}
Shapes == {"line", "blank", "one", "four", "toolong", "bighdr"}

\* A request: "line" is COMMAND TARGET [VERSION]; the other shapes are a blank
\* request line, a one-word line, a four-word line, a request line longer than
\* 65536 bytes and a header section http.client refuses.
Requests ==
  [shape : {"line"}, command : Methods, target : Targets, version : Versions]
  \cup [shape : Shapes \ {"line"}, command : {"GET"}, target : {<<"/">>},
        version : {"HTTP/1.1"}]

\* parse_request's version check: <<major, minor>>, or <<>> where it raises
\* ValueError
VersionNumber(v) ==
  CASE v = "HTTP/1.1" -> <<1, 1>>
    [] v = "HTTP/0.9" -> <<0, 9>>
    [] v = "HTTP/2.0" -> <<2, 0>>
    [] OTHER -> <<>>

\* --------------------------------------------------------- handler instance
CorsHeaders ==
  << <<"Access-Control-Allow-Origin", "*">>,
     <<"Access-Control-Allow-Methods", "GET, POST, OPTIONS">>,
     <<"Access-Control-Allow-Headers", "Content-Type, Authorization">>,
     <<"Cache-Control", "no-store, no-cache, must-revalidate">> >>

\* The handler instance of one connection before its request line is read.
\*   status     the status line buffered (0: none)
\*   headers    the header lines buffered
\*   blocks     how many header blocks were written to the connection
\*   finalized  how many times the handler's end_headers ran
\*   body       what followed the header block
\*   log        the lines written through log_message
\*   fs_used    whether the filesystem was consulted
\*   answered   whether anything was sent in answer
\*   directory  the root its paths resolve against ("": not yet constructed)
NewHandler ==
  [command |-> "", path |-> <<>>, request_version |-> "", directory |-> "",
   status |-> 0, headers |-> <<>>, blocks |-> 0, finalized |-> 0,
   body |-> "none", log |-> <<>>, fs_used |-> FALSE, answered |-> FALSE]

\* log_message with the client address left out of the line
log_message_NoAddress(h, kind, code) ==
  [h EXCEPT !.log = Append(@, [ts |-> "log_date_time_string", addr |-> "",
                                kind |-> kind, code |-> code])]

\* CORSHTTPRequestHandler.log_message: print("[ts] addr - text")
log_message(h, kind, code) ==
  [h EXCEPT !.log = Append(@, [ts |-> "log_date_time_string",
                                addr |-> "address_string",
                                kind |-> kind, code |-> code])]

log_request(h, code) == log_message(h, "request", code)

log_error(h, code) == log_message(h, "error", code)

send_response_only(h, code) ==
  IF h.request_version # "HTTP/0.9" THEN [h EXCEPT !.status = code] ELSE h

send_header(h, keyword, value) ==
  IF h.request_version # "HTTP/0.9"
  THEN [h EXCEPT !.headers = Append(@, <<keyword, value>>)]
  ELSE h

\* BaseHTTPRequestHandler.end_headers: write the buffered block
base_end_headers(h) ==
  IF h.request_version # "HTTP/0.9"
  THEN [h EXCEPT !.blocks = @ + 1, !.answered = TRUE]
  ELSE h

\* CORSHTTPRequestHandler.end_headers
end_headers(h) ==
  LET h1 == send_header(h, CorsHeaders[1][1], CorsHeaders[1][2])
      h2 == send_header(h1, CorsHeaders[2][1], CorsHeaders[2][2])
      h3 == send_header(h2, CorsHeaders[3][1], CorsHeaders[3][2])
      h4 == send_header(h3, CorsHeaders[4][1], CorsHeaders[4][2])
  IN base_end_headers([h4 EXCEPT !.finalized = @ + 1])

send_response(h, code) ==
  LET h1 == log_request(h, code)
      h2 == send_response_only(h1, code)
      h3 == send_header(h2, "Server", "version_string")
  IN send_header(h3, "Date", "date_time_string")

\* wfile.write(body) / copyfile
write_body(h, body) == [h EXCEPT !.body = body, !.answered = TRUE]

send_error(h, code) ==
  LET h1 == log_error(h, code)
      h2 == send_response(h1, code)
      h3 == send_header(h2, "Connection", "close")
      hasBody == code >= 200 /\ code \notin {204, 205, 304}
      h4 == IF hasBody
            THEN send_header(send_header(h3, "Content-Type", "text/html;charset=utf-8"),
                             "Content-Length", "len(error page)")
            ELSE h3
      h5 == end_headers(h4)
  IN IF h.command # "HEAD" /\ hasBody THEN write_body(h5, "error page") ELSE h5

\* os.path.isdir(path): the root is the only directory
IsDir(tp) == tp.words = <<>>

\* SimpleHTTPRequestHandler.list_directory
list_directory(h) ==
  LET h1 == send_response(h, 200)
      h2 == send_header(h1, "Content-type", "text/html; charset=utf-8")
      h3 == send_header(h2, "Content-Length", "len(listing)")
  IN [file |-> "listing", h |-> end_headers(h3)]

\* SimpleHTTPRequestHandler.send_head: the handler after the header block and
\* the file object left to copy ("none": nothing further to send)
send_head(h0, index) ==
  LET h == [h0 EXCEPT !.fs_used = TRUE]
      tp == translate_path(h.path)
      upath == UrlsplitPath(h.path)
      redirect == IsDir(tp) /\ (upath = <<>> \/ upath[Len(upath)] # "/")
      \* the directory's index page, when os.path.isfile finds one
      viaIndex == IsDir(tp) /\ index # "missing"
      isIndex == viaIndex \/ tp.words = << <<"index.html">> >>
      endsSlash == ~viaIndex /\ tp.trailing_slash
      opened == isIndex /\ index = "readable"
  IN IF redirect
     THEN LET h1 == send_response(h, 301)
              h2 == send_header(h1, "Location", "urlunsplit(path + '/')")
              h3 == send_header(h2, "Content-Length", "0")
          IN [file |-> "none", h |-> end_headers(h3)]
     ELSE IF IsDir(tp) /\ ~viaIndex THEN list_directory(h)
     ELSE IF endsSlash \/ ~opened THEN [file |-> "none", h |-> send_error(h, 404)]
     ELSE LET h1 == send_response(h, 200)
              h2 == send_header(h1, "Content-type", "text/html")
              h3 == send_header(h2, "Content-Length", "st_size")
              h4 == send_header(h3, "Last-Modified", "st_mtime")
          IN [file |-> "index.html", h |-> end_headers(h4)]

\* SimpleHTTPRequestHandler.do_GET: send_head, then copy the file out
base_do_GET(h, index) ==
  LET r == send_head(h, index)
  IN IF r.file # "none" THEN write_body(r.h, r.file) ELSE r.h

\* SimpleHTTPRequestHandler.do_HEAD
do_HEAD(h, index) == send_head(h, index).h

\* CORSHTTPRequestHandler.do_GET, the rewrite: self.path as delegated
RewritePath(path) ==
  IF UrlparsePath(path) = <<"/">> THEN <<"/", "index.html">> ELSE path

\* CORSHTTPRequestHandler.do_GET
do_GET(h, index) == base_do_GET([h EXCEPT !.path = RewritePath(h.path)], index)

\* CORSHTTPRequestHandler.do_OPTIONS
do_OPTIONS(h) == end_headers(send_response(h, 200))

\* BaseHTTPRequestHandler.parse_request: ok is its return value
parse_request(req) ==
  LET h0 == [NewHandler EXCEPT !.request_version = "HTTP/0.9"]
      nwords == CASE req.shape = "blank" -> 0
                  [] req.shape = "one" -> 1
                  [] req.shape = "four" -> 4
                  [] req.shape = "line" /\ req.version = "" -> 2
                  [] OTHER -> 3
      vn == VersionNumber(req.version)
      h1 == [h0 EXCEPT !.request_version = req.version]
      \* a leading run of "/" is reduced to one (gh-87389)
      path == IF Len(req.target) >= 2 /\ req.target[1] = "/" /\ req.target[2] = "/"
              THEN <<"/">> \o LStripSlash(req.target)
              ELSE req.target
  IN IF nwords = 0 THEN [ok |-> FALSE, h |-> h0]
     ELSE IF nwords >= 3 /\ vn = <<>> THEN [ok |-> FALSE, h |-> send_error(h0, 400)]
     ELSE IF nwords >= 3 /\ vn[1] >= 2 THEN [ok |-> FALSE, h |-> send_error(h0, 505)]
     ELSE IF nwords = 1 THEN [ok |-> FALSE, h |-> send_error(h0, 400)]
     ELSE IF nwords = 4 THEN [ok |-> FALSE, h |-> send_error(h1, 400)]
     ELSE IF nwords = 2 /\ req.command # "GET"
          THEN [ok |-> FALSE, h |-> send_error(h0, 400)]
     ELSE LET h2 == [(IF nwords = 2 THEN h0 ELSE h1) EXCEPT
                        !.command = req.command, !.path = path]
          IN IF req.shape = "bighdr"
             THEN [ok |-> FALSE, h |-> send_error(h2, 431)]
             ELSE [ok |-> TRUE, h |-> h2]

\* BaseHTTPRequestHandler.handle_one_request: the handler instance once the
\* request has been dealt with
handle_one_request(req, index) ==
  IF req.shape = "toolong" THEN send_error(NewHandler, 414)
  ELSE LET p == parse_request(req)
       IN IF ~p.ok THEN p.h
          ELSE CASE p.h.command = "GET" -> do_GET(p.h, index)
                 [] p.h.command = "HEAD" -> do_HEAD(p.h, index)
                 [] p.h.command = "OPTIONS" -> do_OPTIONS(p.h)
                 [] OTHER -> send_error(p.h, 501)

\* -------------------------------------------------------------------- main
Digits == {"0", "1", "2", "3", "4", "5", "6", "7", "8", "9"}

DigitVal(c) ==
  CASE c = "0" -> 0 [] c = "1" -> 1 [] c = "2" -> 2 [] c = "3" -> 3 [] c = "4" -> 4
    [] c = "5" -> 5 [] c = "6" -> 6 [] c = "7" -> 7 [] c = "8" -> 8 [] OTHER -> 9

RECURSIVE DigitsVal(_, _)
DigitsVal(s, acc) ==
  IF s = <<>> THEN acc ELSE DigitsVal(Tail(s), 10 * acc + DigitVal(Head(s)))

\* int(s) raises no ValueError: an optional sign, then one or more digits
IsInt(s) ==
  LET body == IF s # <<>> /\ Head(s) \in {"-", "+"} THEN Tail(s) ELSE s
  IN body # <<>> /\ \A i \in 1..Len(body) : body[i] \in Digits

\* int(s)
IntOf(s) ==
  IF Head(s) = "-" THEN 0 - DigitsVal(Tail(s), 0)
  ELSE IF Head(s) = "+" THEN DigitsVal(Tail(s), 0)
  ELSE DigitsVal(s, 0)

\* sys.argv[1:] as the process may be started: no argument, or one argument
Argvs ==
  { <<>>,
    << <<"9", "0">> >>,
    << <<"a", "b", "c">> >>,
    << <<"9", "x">> >>,
    << <<>> >>,
    << <<"-", "1">> >>,
    << <<"7", "0", "0", "0", "0">> >> }

\* send_error ran for this handler
SentError(h) == \E i \in 1..Len(h.log) : h.log[i].kind = "error"

NoRequest == [shape |-> "none", command |-> "", target |-> <<>>, version |-> ""]

\* what socket.bind can answer for a port in range
BindOutcomes == {"ok", "EADDRINUSE", "EACCES"}

VARIABLES
  pc,          \* where main() is
  argv,        \* sys.argv[1:]
  port,        \* main's local port
  cwd,         \* the process's working directory
  chdirs,      \* how many times os.chdir ran
  sock,        \* httpd's socket: "none", "listening", "closed"
  out,         \* standard output: what main printed (invalid, banner, notice)
  exit_status, \* the process's exit status, -1 while it runs
  cause,       \* why the process ended
  sigints,     \* KeyboardInterrupts raised so far
  index,       \* index.html under the root
  request,     \* the request of the connection being handled
  handler,     \* its handler instance
  conn,        \* the connection: "none", "accepted", "closed", "reset"
  had_error    \* whether some request so far ended in a per-request error

vars == <<pc, argv, port, cwd, chdirs, sock, out, exit_status, cause, sigints,
          index, request, handler, conn, had_error>>

\* the lifecycle state of section 4.2 that a position of main() belongs to
Lifecycle(p) ==
  CASE p \in {"parse", "chdir"} -> "Init"
    [] p \in {"bind", "banner"} -> "BindingListener"
    [] p \in {"serve", "handling", "finish"} -> "Serving"
    [] p \in {"shut_print", "shut_close", "shut_exit"} -> "ShuttingDown"
    [] OTHER -> "Terminated"

Init ==
  /\ pc = "parse"
  /\ argv \in Argvs
  /\ port = DefaultPort
  /\ cwd \in {CallerDir, ScriptDir}
  /\ chdirs = 0
  /\ sock = "none"
  /\ out = [invalid |-> FALSE, value |-> <<>>, banner |-> FALSE, notice |-> FALSE]
  /\ exit_status = -1
  /\ cause = "running"
  /\ sigints = 0
  /\ index \in FileStates
  /\ request = NoRequest
  /\ handler = NewHandler
  /\ conn = "none"
  /\ had_error = FALSE

\* the port argument with sys.exit(1) left out: the message is printed and
\* startup goes on with the default port
ParseArgs_NoExit ==
  /\ pc = "parse"
  /\ IF Len(argv) > 0 /\ ~IsInt(argv[1])
     THEN /\ out' = [out EXCEPT !.invalid = TRUE, !.value = argv[1]]
          /\ port' = port
     ELSE /\ port' = IF Len(argv) > 0 THEN IntOf(argv[1]) ELSE port
          /\ out' = out
  /\ pc' = "chdir"
  /\ UNCHANGED <<argv, cwd, chdirs, sock, exit_status, cause, sigints, index, request,
                 handler, conn, had_error>>

\* main, lines 59-65: the port argument
ParseArgs ==
  /\ pc = "parse"
  /\ IF Len(argv) > 0 /\ ~IsInt(argv[1])
     THEN /\ out' = [out EXCEPT !.invalid = TRUE, !.value = argv[1]]
          /\ exit_status' = 1
          /\ cause' = "config"
          /\ pc' = "done"
          /\ port' = port
     ELSE /\ port' = IF Len(argv) > 0 THEN IntOf(argv[1]) ELSE port
          /\ pc' = "chdir"
          /\ UNCHANGED <<out, exit_status, cause>>
  /\ UNCHANGED <<argv, cwd, chdirs, sock, sigints, index, request, handler, conn, had_error>>

\* startup without the os.chdir
Chdir_Skipped ==
  /\ pc = "chdir"
  /\ pc' = "bind"
  /\ UNCHANGED <<argv, port, cwd, chdirs, sock, out, exit_status, cause, sigints, index,
                 request, handler, conn, had_error>>

\* main, lines 68-69: os.chdir(script_dir)
Chdir ==
  /\ pc = "chdir"
  /\ cwd' = ScriptDir
  /\ chdirs' = chdirs + 1
  /\ pc' = "bind"
  /\ UNCHANGED <<argv, port, sock, out, exit_status, cause, sigints, index,
                 request, handler, conn, had_error>>

\* the constructor's exception swallowed: startup goes on without a listener
Bind_ErrorSwallowed(outcome) ==
  /\ pc = "bind"
  /\ sock' = IF port \in 0..MaxPort /\ outcome = "ok" THEN "listening" ELSE "closed"
  /\ pc' = "banner"
  /\ UNCHANGED <<argv, port, cwd, chdirs, out, exit_status, cause, sigints, index,
                 request, handler, conn, had_error>>

\* main, line 73: TCPServer(("", port), handler) binds and listens, or raises
\* (OverflowError for a port outside 0..65535, else the OS's error); the
\* exception is not caught and the interpreter exits with status 1
Bind(outcome) ==
  /\ pc = "bind"
  /\ IF port \in 0..MaxPort /\ outcome = "ok"
     THEN /\ sock' = "listening"
          /\ pc' = "banner"
          /\ UNCHANGED <<exit_status, cause>>
     ELSE /\ sock' = "closed"
          /\ exit_status' = 1
          /\ cause' = "bind"
          /\ pc' = "done"
  /\ UNCHANGED <<argv, port, cwd, chdirs, out, sigints, index, request, handler, conn, had_error>>

\* main, lines 75-79: the startup banner
Banner ==
  /\ pc = "banner"
  /\ out' = [out EXCEPT !.banner = TRUE]
  /\ pc' = "serve"
  /\ UNCHANGED <<argv, port, cwd, chdirs, sock, exit_status, cause, sigints, index,
                 request, handler, conn, had_error>>

\* serve_forever accepts a connection and constructs its handler, whose
\* directory is os.getcwd()
Accept(req) ==
  /\ pc = "serve"
  /\ sock = "listening"
  /\ request' = req
  /\ handler' = [NewHandler EXCEPT !.directory = cwd]
  /\ conn' = "accepted"
  /\ pc' = "handling"
  /\ UNCHANGED <<argv, port, cwd, chdirs, sock, out, exit_status, cause, sigints, index,
                 had_error>>

\* the handler runs to completion: handle(), then finish() flushes and closes
HandleRequest ==
  /\ pc = "handling"
  /\ handler' = [handle_one_request(request, index) EXCEPT
                    !.directory = handler.directory]
  /\ conn' = "closed"
  /\ had_error' = (had_error \/ SentError(handler'))
  /\ pc' = "finish"
  /\ UNCHANGED <<argv, port, cwd, chdirs, sock, out, exit_status, cause, sigints,
                 index, request>>

\* the handler's exception escaping serve_forever: the process dies of it
ConnectionError_Propagates ==
  /\ pc = "handling"
  /\ handler' = [NewHandler EXCEPT !.directory = handler.directory]
  /\ conn' = "reset"
  /\ had_error' = TRUE
  /\ sock' = "closed"
  /\ exit_status' = 1
  /\ cause' = "request"
  /\ pc' = "done"
  /\ UNCHANGED <<argv, port, cwd, chdirs, out, sigints, index, request>>

\* the client broke the connection: reading or writing raises an OSError,
\* which _handle_request_noblock catches (except Exception: handle_error)
ConnectionError ==
  /\ pc = "handling"
  /\ handler' = [NewHandler EXCEPT !.directory = handler.directory]
  /\ conn' = "reset"
  /\ had_error' = TRUE
  /\ pc' = "finish"
  /\ UNCHANGED <<argv, port, cwd, chdirs, sock, out, exit_status, cause, sigints,
                 index, request>>

\* shutdown_request: the connection and its handler instance are dropped and
\* the loop goes back to waiting
ShutdownRequest ==
  /\ pc = "finish"
  /\ request' = NoRequest
  /\ handler' = NewHandler
  /\ conn' = "none"
  /\ pc' = "serve"
  /\ UNCHANGED <<argv, port, cwd, chdirs, sock, out, exit_status, cause, sigints, index,
                 had_error>>

\* the try/except KeyboardInterrupt wrapped around the whole of main()
Interrupt_CaughtEverywhere ==
  /\ pc \notin {"done", "shut_print", "shut_close", "shut_exit"}
  /\ sigints' = sigints + 1
  /\ pc' = "shut_print"
  /\ request' = NoRequest
  /\ handler' = NewHandler
  /\ conn' = "none"
  /\ UNCHANGED <<argv, port, cwd, chdirs, sock, out, exit_status, cause, index, had_error>>

\* SIGINT: KeyboardInterrupt is raised where main() is.  Inside
\* serve_forever (lines 81-82) the except clause takes it; anywhere else,
\* the except clause's own body included, nothing catches it and the
\* interpreter dies of the signal (status 130).
Interrupt ==
  /\ pc # "done"
  /\ sigints' = sigints + 1
  /\ IF pc \in {"serve", "handling", "finish"}
     THEN /\ pc' = "shut_print"
          /\ request' = NoRequest
          /\ handler' = NewHandler
          /\ conn' = "none"
          /\ UNCHANGED <<sock, exit_status, cause>>
     ELSE /\ pc' = "done"
          /\ exit_status' = 130
          /\ cause' = "interrupt"
          /\ sock' = IF sock = "listening" THEN "closed" ELSE sock
          /\ UNCHANGED <<request, handler, conn>>
  /\ UNCHANGED <<argv, port, cwd, chdirs, out, index, had_error>>

\* main, line 84
PrintNotice ==
  /\ pc = "shut_print"
  /\ out' = [out EXCEPT !.notice = TRUE]
  /\ pc' = "shut_close"
  /\ UNCHANGED <<argv, port, cwd, chdirs, sock, exit_status, cause, sigints, index,
                 request, handler, conn, had_error>>

\* the shutdown path without httpd.server_close()
ServerClose_Skipped ==
  /\ pc = "shut_close"
  /\ pc' = "shut_exit"
  /\ UNCHANGED <<argv, port, cwd, chdirs, sock, out, exit_status, cause, sigints, index,
                 request, handler, conn, had_error>>

\* main, line 85
ServerClose ==
  /\ pc = "shut_close"
  /\ sock' = "closed"
  /\ pc' = "shut_exit"
  /\ UNCHANGED <<argv, port, cwd, chdirs, out, exit_status, cause, sigints, index,
                 request, handler, conn, had_error>>

\* main, line 86
Exit ==
  /\ pc = "shut_exit"
  /\ exit_status' = 0
  /\ cause' = "interrupt"
  /\ pc' = "done"
  /\ UNCHANGED <<argv, port, cwd, chdirs, sock, out, sigints, index, request,
                 handler, conn, had_error>>

Next ==
  \/ ParseArgs
  \/ Chdir
  \/ \E outcome \in BindOutcomes : Bind(outcome)
  \/ Banner
  \/ \E req \in Requests : Accept(req)
  \/ HandleRequest
  \/ ConnectionError
  \/ ShutdownRequest
  \/ Interrupt
  \/ PrintNotice
  \/ ServerClose
  \/ Exit

Spec == Init /\ [][Next]_vars

\* Once the except clause of main() is entered its statements run to the end;
\* signals and clients are not obliged to do anything
FairSpec == Spec /\ WF_vars(PrintNotice \/ ServerClose \/ Exit)

\* ================================================================== claims
\* the four headers are in a header block that was written
HasCors(h) ==
  /\ h.blocks >= 1
  /\ \A i \in 1..Len(CorsHeaders) :
       \E j \in 1..Len(h.headers) : h.headers[j] = CorsHeaders[i]

\* the handler of the current connection ran to completion
Handled == pc = "finish" /\ conn = "closed"

\* the request of the current connection was dispatched to do_<command>
Dispatched(command) ==
  /\ Handled
  /\ request.shape # "toolong"
  /\ parse_request(request).ok
  /\ request.command = command

\* what reaches the client, without the timestamp-derived headers
Wire(h) ==
  [status |-> h.status,
   headers |-> IF h.blocks >= 1
               THEN SelectSeq(h.headers, LAMBDA kv : kv[1] \notin {"Date", "Last-Modified"})
               ELSE <<>>,
   body |-> h.body]

\* C1: every response the server sends, whatever the method, path or outcome,
\* carries the four CORS/cache headers with exactly the specified values, and
\* no header block is written without end_headers having run.
C1_EveryResponseCarriesCors ==
  (Handled /\ handler.answered) =>
    (HasCors(handler) /\ handler.blocks <= handler.finalized)

\* C2: every OPTIONS request that reaches do_OPTIONS, for any path, is answered
\* with status 200, an empty body and the four CORS/cache headers, without the
\* filesystem being consulted.
C2_OptionsAnswered200 ==
  Dispatched("OPTIONS") =>
    /\ handler.status = 200
    /\ handler.body = "none"
    /\ HasCors(handler)
    /\ ~handler.fs_used

\* the path component as C3 words it: the part before any query or fragment
PathBeforeQueryOrFragment(path) == Before(Before(path, "#"), "?")

Rank(p) ==
  CASE Lifecycle(p) = "Init" -> 0
    [] Lifecycle(p) = "BindingListener" -> 1
    [] Lifecycle(p) = "Serving" -> 2
    [] Lifecycle(p) = "ShuttingDown" -> 3
    [] OTHER -> 4

InvalidArg == Len(argv) > 0 /\ ~IsInt(argv[1])

\* C4: with a port argument that is no integer, main's argument parsing
\* prints "Invalid port number: <value>" naming it and exits with status 1,
\* and in such a run no socket is created, the working directory is not
\* changed, no banner is printed and no request is handled.
C4_InvalidPortExits1 ==
  /\ [](InvalidArg =>
          /\ sock = "none" /\ chdirs = 0 /\ ~out.banner
          /\ conn = "none" /\ request = NoRequest
          /\ pc \in {"parse", "done"})
  /\ [][(InvalidArg /\ pc = "parse" /\ sigints' = sigints) =>
          /\ out'.invalid /\ out'.value = argv[1]
          /\ exit_status' = 1
          /\ pc' = "done"
          /\ cwd' = cwd]_vars

C4_Witness ==
  InvalidArg /\ pc = "done" /\ out.invalid /\ exit_status = 1 /\ argv[1] = <<"9", "x">>

\* the order of the shutdown path: notice, then the socket, then exit 0; and
\* nothing is accepted once an interrupt was delivered
ShutdownOrder ==
  /\ pc = "shut_print" => (~out.notice /\ sock = "listening")
  /\ pc = "shut_close" => (out.notice /\ sock = "listening")
  /\ pc = "shut_exit" => (out.notice /\ sock = "closed" /\ exit_status = -1)
  /\ exit_status = 0 => (out.notice /\ sock = "closed" /\ pc = "done")
  /\ sigints > 0 => (conn = "none" /\ request = NoRequest)

\* C5 as stated, by its final result: a server that was interrupted while
\* Serving (the only way out of Serving) has, once the process is over,
\* printed the shutdown notice, released the socket and exited with status 0.
C5_InterruptedServerExits0 ==
  (pc = "done" /\ out.banner) =>
    (exit_status = 0 /\ out.notice /\ sock = "closed")

\* C5 amended: an interrupt delivered in Serving leads to the notice, then the
\* release of the socket, then exit status 0, unless a further interrupt is
\* delivered before the process has exited; nothing is accepted after it.
C5_InterruptLeadsToExit0UnlessInterruptedAgain ==
  /\ []ShutdownOrder
  /\ (pc = "shut_print") ~>
       (pc = "done" /\
        (sigints = 1 => (exit_status = 0 /\ out.notice /\ sock = "closed")))

C5_Witness ==
  pc = "done" /\ sigints = 1 /\ exit_status = 0 /\ out.notice /\ sock = "closed"

\* C6 as stated: every request handled writes exactly one log line, made of
\* the timestamp, the client address and the request summary with its status.
C6_ExactlyOneLogLine ==
  Handled =>
    /\ Len(handler.log) = 1
    /\ handler.log[1].kind = "request"

\* C6 amended: every request handled that has a request line writes exactly
\* one request-summary line (timestamp, client address, request line, status)
\* through log_message, as its last line; a response sent by send_error is
\* preceded by exactly one more line, "code <status>, message ...", and any
\* other response by none; a blank request line writes nothing.
C6_OneSummaryLinePlusOneErrorLine ==
  Handled =>
    LET log == handler.log
        n == Len(log)
    IN /\ \A i \in 1..n : log[i].ts = "log_date_time_string" /\ log[i].addr = "address_string"
       /\ request.shape = "blank" => n = 0
       /\ request.shape # "blank" =>
            /\ n \in {1, 2}
            /\ log[n].kind = "request"
            /\ n = 2 <=> log[n].code >= 400
            /\ n = 2 => (log[1].kind = "error" /\ log[1].code = log[2].code)
            /\ handler.status \in {0, log[n].code}

C6_Witness ==
  /\ Handled /\ Len(handler.log) = 2 /\ handler.status = 404
  /\ \E i \in 1..Len(request.target) : request.target[i] = "x"

\* C7: a per-request error (not found, traversal, unreadable file, malformed
\* request, broken connection) leaves the process serving with its socket
\* listening, so later connections are accepted and answered; only a
\* configuration error, a bind error or an interrupt ends the process.
C7_RequestErrorsAreContained ==
  /\ (had_error /\ sigints = 0) =>
       (Lifecycle(pc) = "Serving" /\ sock = "listening" /\ exit_status = -1)
  /\ (pc = "finish" /\ (conn = "reset" \/ SentError(handler))) => had_error
  /\ pc = "serve" => (sock = "listening" /\ ENABLED (\E req \in Requests : Accept(req)))
  /\ pc = "done" <=> cause \in {"config", "bind", "interrupt"}
  /\ cause = "interrupt" => sigints > 0
  /\ cause = "config" => InvalidArg

C7_Witness ==
  had_error /\ Handled /\ handler.status = 200 /\ handler.body = "index.html"

\* C8: when creating the listener fails, the process ends at once with a
\* non-zero status: it never serves, prints no banner and handles no request.
C8_BindFailureIsFatal ==
  /\ cause = "bind" =>
       /\ pc = "done" /\ exit_status \notin {0, -1}
       /\ ~out.banner /\ sock # "listening"
       /\ conn = "none" /\ request = NoRequest /\ ~had_error
  /\ (out.banner \/ pc = "banner" \/ Rank(pc) \in {2, 3}) =>
       (cause # "bind" /\ port \in 0..MaxPort)
  /\ (pc = "banner" \/ Rank(pc) = 2) => sock = "listening"

C8_Witness ==
  cause = "bind" /\ pc = "done" /\ exit_status = 1 /\ port > MaxPort

\* C9: the lifecycle only moves forward through Init, BindingListener,
\* Serving, ShuttingDown, Terminated; Serving is entered only from a bound
\* listener; ShuttingDown only from Serving and only by an interrupt; an
\* interrupt before Serving ends the process without the shutdown path; once
\* Terminated nothing happens any more.
C9_LifecycleMovesForward ==
  /\ [][/\ Rank(pc') >= Rank(pc)
        /\ (Rank(pc') = 1 /\ Rank(pc) # 1) => Rank(pc) = 0
        /\ (Rank(pc') = 2 /\ Rank(pc) # 2) => (Rank(pc) = 1 /\ sock = "listening")
        /\ (Rank(pc') = 3 /\ Rank(pc) # 3) => (Rank(pc) = 2 /\ sigints' = sigints + 1)
        /\ (Rank(pc) = 2 /\ Rank(pc') # 2) => (Rank(pc') = 3 /\ sigints' = sigints + 1)
        /\ (sigints' # sigints /\ Rank(pc) < 2) =>
             (pc' = "done" /\ ~out'.notice /\ exit_status' # 0)]_vars
  /\ [](Lifecycle(pc) = "Serving" => sock = "listening")
  /\ [](pc = "done" => (~ENABLED Next /\ conn = "none" /\ sock # "listening"))

C9_Witness ==
  pc = "done" /\ exit_status = 0 /\ out.banner /\ out.notice /\ sock = "closed"

\* C10: the working directory is set once, to the script's directory, before
\* the socket exists, and nothing changes it afterwards; every handler
\* resolves its paths against that one root.
C10_WorkingDirectoryPinned ==
  /\ chdirs <= 1
  /\ chdirs = 1 => cwd = ScriptDir
  /\ Rank(pc) \in {1, 2, 3} => chdirs = 1
  /\ sock # "none" => (chdirs = 1 /\ cwd = ScriptDir)
  /\ conn # "none" => handler.directory = ScriptDir

C10_Witness ==
  Handled /\ handler.fs_used /\ handler.directory = ScriptDir /\ chdirs = 1
====
